---- MODULE Spec2Model ----
(***************************************************************************)
(* Longest simple path solvers: the exhaustive DFS of                      *)
(* exact_solution/cs412_longestpath_exact.py, the greedy multi-start       *)
(* driver of approx_solution/cs412_longestpath_approx.py and the improved  *)
(* driver and builders of part_E/cs412_longestpath_approx_improved.py.     *)
(*                                                                         *)
(* Vertices are numbered 1..n (the programs use opaque strings).  Weights  *)
(* are integers; every score is kept multiplied by Scale so that the       *)
(* factors 0.3, 0.4, 0.2, 0.6, 0.15 and 0.5 of the scorers stay exact, and *)
(* the 1e-9 tie tolerance is equality of the scaled scores.                *)
(***************************************************************************)
EXTENDS Integers, Sequences, FiniteSets, TLC

\* ---------------------------------------------------------------- bounds
\* generated graphs have vertices 1..n with n <= MaxV
MaxV == 3
\* generated edge weights are 0..MaxW
MaxW == 2
\* every iteration order of the vertex set is drawn up to this many vertices
MaxPermV == 3
\* number of states of the pseudo-random generator
RngMod == 7
\* the seed budgets are computed for path graphs of 2..MaxN vertices
MaxN == 101

\* the Python value None of num_starts and random_seed
None == -1

\* scores are stored multiplied by this factor
Scale == 100

\* ---------------------------------------------------------------- helpers
Max2(a, b) == IF a >= b THEN a ELSE b

Range(s) == {s[k] : k \in DOMAIN s}

Last(s) == s[Len(s)]

Front(s) == SubSeq(s, 1, Len(s) - 1)

RECURSIVE SumSeq(_)
SumSeq(s) == IF s = <<>> THEN 0 ELSE s[1] + SumSeq(Tail(s))

Reverse(s) == [k \in 1..Len(s) |-> s[Len(s) + 1 - k]]

\* the ascending enumeration of a finite set of integers
RECURSIVE Asc(_)
Asc(S) ==
    IF S = {} THEN <<>>
    ELSE LET m == CHOOSE x \in S : \A y \in S : x <= y
         IN <<m>> \o Asc(S \ {m})

Perms(S) ==
    {f \in [1..Cardinality(S) -> S] : \A a, b \in 1..Cardinality(S) : f[a] = f[b] => a = b}

\* ---------------------------------------------------------------- graph
\* graph[u][v] = w on a defaultdict(dict): the row of u is created on first
\* use, an existing entry keeps its position, a new one is appended.
SetItem(adj, u, v, w) ==
    LET row == IF u \in DOMAIN adj THEN adj[u] ELSE <<>>
        newrow == IF \E k \in DOMAIN row : row[k][1] = v
                  THEN [k \in DOMAIN row |-> IF row[k][1] = v THEN <<v, w>> ELSE row[k]]
                  ELSE Append(row, <<v, w>>)
    IN [x \in (DOMAIN adj) \cup {u} |-> IF x = u THEN newrow ELSE adj[x]]

AddKey(keys, u) == IF u \in Range(keys) THEN keys ELSE Append(keys, u)

\* read_graph: every edge line u v w is stored in both directions
RECURSIVE read_graph(_, _)
read_graph(edges, acc) ==
    IF edges = <<>> THEN acc
    ELSE LET e == Head(edges)
             u == e[1]
             v == e[2]
             w == e[3]
             next == [keys |-> AddKey(AddKey(acc.keys, u), v),
                      adj  |-> SetItem(SetItem(acc.adj, u, v, w), v, u, w)]
         IN \* the comparison makes TLC build the dictionary at each line
            IF next = next THEN read_graph(Tail(edges), next) ELSE acc

EmptyGraph == [keys |-> <<>>, adj |-> <<>>]

\* the unordered pairs of 1..n in lexicographic order
PairSeq(n) ==
    LET P == {<<i, j>> \in (1..n) \X (1..n) : i < j}
        RECURSIVE Enum(_)
        Enum(S) ==
            IF S = {} THEN <<>>
            ELSE LET m == CHOOSE p \in S : \A q \in S :
                              p[1] < q[1] \/ (p[1] = q[1] /\ p[2] <= q[2])
                 IN <<m>> \o Enum(S \ {m})
    IN Enum(P)

\* edge lists of the generated family: each pair of 1..n is absent (None) or
\* carries a weight; the file lists the edges in lexicographic order or in
\* the reverse of it.
GenEdgeLists(n) ==
    LET ps == PairSeq(n)
        Pick(wf) ==
            LET RECURSIVE Build(_)
                Build(k) ==
                    IF k > Len(ps) THEN <<>>
                    ELSE (IF wf[k] = None THEN <<>>
                          ELSE << <<ps[k][1], ps[k][2], wf[k]>> >>) \o Build(k + 1)
            IN Build(1)
    IN UNION {{Pick(wf), Reverse(Pick(wf))} : wf \in [1..Len(ps) -> {None} \cup (0..MaxW)]}

\* Scenario A of the specification: triangle A-B:10, B-C:20, A-C:5
TriangleEdges == << <<1, 2, 10>>, <<2, 3, 20>>, <<1, 3, 5>> >>
\* Scenario B: star with centre 1 and three leaves of weight 1
StarEdges == << <<1, 2, 1>>, <<1, 3, 1>>, <<1, 4, 1>> >>
\* Scenario D: chain A-B-C-D with weights 1, 2, 3
ChainEdges == << <<1, 2, 1>>, <<2, 3, 2>>, <<3, 4, 3>> >>
\* Scenario E, the greedy trap (the shape generate_greedy_trap_graph builds):
\* A-B=100, B-C=1, A-D=30, D-E=30, E-F=30
TrapEdges == << <<1, 2, 100>>, <<2, 3, 1>>, <<1, 4, 30>>, <<4, 5, 30>>, <<5, 6, 30>> >>

ScenarioInputs ==
    { [n |-> 3, edges |-> TriangleEdges],
      [n |-> 4, edges |-> StarEdges],
      [n |-> 4, edges |-> ChainEdges],
      [n |-> 6, edges |-> TrapEdges] }

\* an edge line that joins a vertex to itself: a vertex without any edge to
\* another vertex
LoopEdges == << <<1, 1, 1>> >>

LoopInputs == { [n |-> 1, edges |-> LoopEdges] }

\* a path graph of 9 vertices (generate_path_graph): 8 edges, in the size
\* class 9 <= n <= 12 of the improved driver
MediumEdges ==
    << <<1, 2, 4>>, <<2, 3, 1>>, <<3, 4, 7>>, <<4, 5, 2>>,
       <<5, 6, 8>>, <<6, 7, 3>>, <<7, 8, 6>>, <<8, 9, 5>> >>

MediumInputs == { [n |-> 9, edges |-> MediumEdges] }

\* a graph of 9 vertices and 21 edges (generate_sparse_graph with n = 9,
\* m = 21, the selected pairs being the first 21 of possible_edges): inside
\* the size class 9..12 with more than 20 edges
RECURSIVE PossibleEdges(_, _, _)
PossibleEdges(i, j, n) ==
    IF i >= n THEN <<>>
    ELSE IF j > n THEN PossibleEdges(i + 1, i + 2, n)
    ELSE << <<i, j, ((i + 2 * j) % 5) + 1>> >> \o PossibleEdges(i, j + 1, n)

DenseEdges == SubSeq(PossibleEdges(1, 2, 9), 1, 21)

DenseInputs == { [n |-> 9, edges |-> DenseEdges] }

\* path graphs (generate_path_graph) of 2..MaxN vertices
PathEdges(n) == [k \in 1..(n - 1) |-> <<k, k + 1, (k % 3) + 1>>]

PathInputs == { [n |-> m, edges |-> PathEdges(m)] : m \in 2..MaxN }

\* edge lines whose weight is negative or zero: float(parts[2]) takes any
\* number. A chain of mixed signs, a triangle of negative weights, a star of
\* zero weights and a triangle with one positive edge
SignedInputs ==
    { [n |-> 4, edges |-> << <<1, 2, -1>>, <<2, 3, 2>>, <<3, 4, 0>> >>],
      [n |-> 3, edges |-> << <<1, 2, -2>>, <<2, 3, -1>>, <<1, 3, -3>> >>],
      [n |-> 4, edges |-> << <<1, 2, 0>>, <<1, 3, 0>>, <<1, 4, 0>> >>],
      [n |-> 3, edges |-> << <<1, 2, -1>>, <<2, 3, 1>>, <<1, 3, -1>> >>] }

GenInputs == UNION {{[n |-> n, edges |-> el] : el \in GenEdgeLists(n)} : n \in 0..MaxV}

\* iteration orders of the Python set `vertices`
Orders(S) ==
    IF Cardinality(S) <= MaxPermV THEN Perms(S)
    ELSE {Asc(S), Reverse(Asc(S))}

VARIABLES
    vertices,   \* the vertex set handed to the solvers
    vlist,      \* the order in which Python iterates that set
    graph,      \* adjacency: vertex -> sequence of <<neighbour, weight>> (dict order)
    gkeys,      \* the keys of graph in insertion order
    ex,         \* find_longest_path: its locals and the dfs call stack
    rng,        \* the state of the module-level generator of `random`
    bld,        \* the builder calls: arguments, locals and position of each
    drv         \* the approximate driver: arguments, locals and position

vars == <<vertices, vlist, graph, gkeys, ex, rng, bld, drv>>

\* ---------------------------------------------------------------- graph queries
Items(v) == IF v \in DOMAIN graph THEN graph[v] ELSE <<>>

Adjacent(u, v) == \E k \in DOMAIN Items(u) : Items(u)[k][1] = v

EdgeWeight(u, v) ==
    LET row == Items(u)
        k == CHOOSE k \in DOMAIN row : row[k][1] = v
    IN row[k][2]

\* faulty variant, used to test the properties: the guard for the empty vertex set is missing
NoVerticesUnchecked(vs) == FALSE

\* `if not vertices`: exact line 92, baseline line 163, improved line 450
NoVertices(vs) == vs = {}

\* `v in graph`
InGraph(v) == v \in DOMAIN graph

\* the vertices of S on which graph[v] is evaluated: every such lookup of
\* the solvers stands under `if v in graph`
Indexed(S) == {v \in S : InGraph(v)}

\* faulty variant, used to test the properties: the lookup assigns an empty dict to the key
GetItemResets(adj, keys, S) ==
    [keys |-> keys,
     adj |-> [v \in DOMAIN adj |-> IF v \in S THEN <<>> ELSE adj[v]]]

\* graph[v] on a defaultdict(dict), for every v of S: a missing key is
\* inserted with an empty dict, the row of a present key is left alone
GetItem(adj, keys, S) ==
    [keys |-> keys \o Asc(S \ Range(keys)),
     adj |-> [v \in (DOMAIN adj) \cup S |-> IF v \in DOMAIN adj THEN adj[v] ELSE <<>>]]

\* the effect on the graph of a step that evaluates graph[v] for the
\* vertices of S, each under its membership test
GraphRead(S) ==
    /\ graph' = GetItem(graph, gkeys, Indexed(S)).adj
    /\ gkeys' = GetItem(graph, gkeys, Indexed(S)).keys

\* ---------------------------------------------------------------- random
\* random.seed(seed): the generator state becomes a function of the seed
RandomSeed(seed) == seed % RngMod

\* the generator state after one draw
RandomNext(r) == (3 * r + 1) % RngMod

\* random.choice(seq) in generator state r
RandomChoice(seq, r) == seq[(r % Len(seq)) + 1]

\* ---------------------------------------------------------------- scorers
SetMax(S) == CHOOSE m \in S : \A x \in S : x <= m

\* entries of graph[neighbor] whose vertex is unvisited and is not `current`
Forward(neighbor, current, visited) ==
    SelectSeq(Items(neighbor), LAMBDA it : it[1] \notin visited /\ it[1] # current)

\* the sequence of tuples `seq` sorted by component i, descending, equal keys
\* in their old order (list.sort(reverse=True, key=...) is stable)
RECURSIVE StableSortDesc(_, _)
StableSortDesc(seq, i) ==
    IF seq = <<>> THEN <<>>
    ELSE LET rest == StableSortDesc(Front(seq), i)
             x == Last(seq)
             before == SelectSeq(rest, LAMBDA y : y[i] >= x[i])
             after == SelectSeq(rest, LAMBDA y : y[i] < x[i])
         IN before \o <<x>> \o after

\* strategy 'greedy': the score is the edge weight
ScoreGreedy(weight) == Scale * weight

\* strategy 'lookahead': weight + 0.3 * best forward edge of the neighbour
ScoreLookahead(current, neighbor, weight, visited) ==
    LET future_potential ==
            SetMax({0} \cup {it[2] : it \in Range(Forward(neighbor, current, visited))})
    IN Scale * weight + 30 * future_potential

\* strategy 'lookahead2': weight + 0.4 * max(future_weight + 0.2 * second step)
ScoreLookahead2(current, neighbor, weight, visited) ==
    LET second_step_potential(fn) ==
            SetMax({0} \cup {it[2] : it \in Range(Forward(fn, neighbor, visited))})
        future_potential ==
            SetMax({0} \cup {Scale * it[2] + 20 * second_step_potential(it[1]) :
                                it \in Range(Forward(neighbor, current, visited))})
    IN Scale * weight + (4 * future_potential) \div 10

\* every stored weight (as a 1-tuple), each edge once per direction
AllWeights ==
    LET RECURSIVE Rows(_)
        Rows(k) ==
            IF k > Len(gkeys) THEN <<>>
            ELSE [j \in DOMAIN graph[gkeys[k]] |-> <<graph[gkeys[k]][j][2]>>] \o Rows(k + 1)
    IN Rows(1)

\* greedy_path_highweight_priority, lines 236-245
HighWeightThreshold ==
    IF gkeys = <<>> THEN 0
    ELSE LET sorted_weights == StableSortDesc(AllWeights, 1)
         IN IF Len(sorted_weights) >= 3 THEN sorted_weights[3][1]
            ELSE IF Len(sorted_weights) > 0 THEN sorted_weights[1][1] ELSE 0

\* lines 288-289: the bonus for several accessible high-weight edges
MultiEdgeBonus(future_high_count) ==
    IF future_high_count > 1 THEN future_high_count * 20 * Scale ELSE 0

\* lines 256-300: the score of greedy_path_highweight_priority
ScoreHighWeight(current, neighbor, weight, visited) ==
    LET thr == HighWeightThreshold
        fwd == Forward(neighbor, current, visited)
        \* lines 270-283, folded in dict order: <<future_max, count, two_step_max>>
        RECURSIVE Look(_, _)
        Look(k, acc) ==
            IF k > Len(fwd) THEN acc
            ELSE LET fn == fwd[k][1]
                     fw == fwd[k][2]
                     fm == Max2(acc[1], Scale * fw)
                     high == fw >= thr
                     two == SetMax({acc[3]} \cup
                               {fw + it[2] : it \in Range(Forward(fn, neighbor, visited))})
                 IN Look(k + 1, << IF high THEN fm + 15 * fw ELSE fm,
                                   IF high THEN acc[2] + 1 ELSE acc[2],
                                   two >>)
        look == Look(1, <<0, 0, 0>>)
        unvisited_neighbor_count == Len(fwd)
    IN Scale * weight
       + (IF weight >= thr THEN 20 * weight ELSE 0)
       + (6 * look[1]) \div 10
       + 40 * look[3]
       + MultiEdgeBonus(look[2])
       - (IF unvisited_neighbor_count <= 1
             /\ Cardinality(visited) < Cardinality(vertices) - 2
          THEN 30 * Scale ELSE 0)

\* greedy_path_connect_highweight_edges, lines 351-358: each edge once, in
\* the order the keys and rows of graph are iterated
AllEdges ==
    LET RECURSIVE Row(_, _, _)
        Row(u, j, acc) ==
            IF j > Len(graph[u]) THEN acc
            ELSE LET v == graph[u][j][1]
                     w == graph[u][j][2]
                     seen == \E e \in Range(acc) : {e[1], e[2]} = {u, v}
                 IN Row(u, j + 1, IF seen THEN acc ELSE Append(acc, <<u, v, w>>))
        RECURSIVE Keys(_, _)
        Keys(k, acc) ==
            IF k > Len(gkeys) THEN acc
            ELSE Keys(k + 1, Row(gkeys[k], 1, acc))
    IN Keys(1, <<>>)

\* line 364: all_edges[:max(5, len(all_edges))]
TopEdgeCount(len) == Max2(5, len)

\* lines 361-364
TopEdges ==
    LET sorted == StableSortDesc(AllEdges, 3)
        k == TopEdgeCount(Len(sorted))
    IN SubSeq(sorted, 1, IF k <= Len(sorted) THEN k ELSE Len(sorted))

\* lines 365-368
HighWeightVertices == UNION {{e[1], e[2]} : e \in Range(TopEdges)}

IsTopEdge(a, b) ==
    \E e \in Range(TopEdges) : (a = e[1] /\ b = e[2]) \/ (a = e[2] /\ b = e[1])

\* lines 380-406: the score of greedy_path_connect_highweight_edges
ScoreConnect(current, neighbor, weight, visited) ==
    LET fwd == Forward(neighbor, current, visited)
        RECURSIVE Look(_, _)
        Look(k, future_high) ==
            IF k > Len(fwd) THEN future_high
            ELSE Look(k + 1,
                      IF IsTopEdge(neighbor, fwd[k][1])
                      THEN future_high + 60 * fwd[k][2]
                      ELSE Max2(future_high, 30 * fwd[k][2]))
    IN Scale * weight
       + (IF IsTopEdge(current, neighbor) THEN 50 * weight ELSE 0)
       + (IF neighbor \in HighWeightVertices THEN 20 * Scale ELSE 0)
       + Look(1, 0)

\* ---------------------------------------------------------------- builders
\* fn: "base" greedy_path_from_start, "improved" greedy_path_from_start_improved,
\* "highweight" greedy_path_highweight_priority,
\* "connect" greedy_path_connect_highweight_edges
Score(fn, strategy, current, neighbor, weight, visited) ==
    CASE fn = "highweight" -> ScoreHighWeight(current, neighbor, weight, visited)
      [] fn = "connect" -> ScoreConnect(current, neighbor, weight, visited)
      [] fn = "improved" /\ strategy = "lookahead2" ->
            ScoreLookahead2(current, neighbor, weight, visited)
      [] fn \in {"base", "improved"} /\ strategy = "lookahead" ->
            ScoreLookahead(current, neighbor, weight, visited)
      [] OTHER -> ScoreGreedy(weight)

\* the list `candidates` of one loop iteration: (score, weight, neighbour)
\* for every unvisited neighbour of current, in dict order
Candidates(b) ==
    LET open == SelectSeq(Items(b.current), LAMBDA it : it[1] \notin b.visited)
    IN [k \in DOMAIN open |->
          <<Score(b.fn, b.strategy, b.current, open[k][1], open[k][2], b.visited),
            open[k][2], open[k][1]>>]

\* the vertices v for which one loop iteration of a builder evaluates
\* graph[v]: current, the unvisited neighbours when the scorer looks ahead,
\* and their forward neighbours when it looks two steps ahead
BuilderLookups(b) ==
    LET N == {it[1] : it \in {x \in Range(Items(b.current)) : x[1] \notin b.visited}}
        F == UNION {{it[1] : it \in Range(Forward(n, b.current, b.visited))} : n \in N}
        one == ~(b.fn \in {"base", "improved"} /\ b.strategy = "greedy")
        two == b.fn = "highweight" \/ (b.fn = "improved" /\ b.strategy = "lookahead2")
    IN {b.current} \cup (IF one THEN N ELSE {}) \cup (IF two THEN F ELSE {})

\* faulty variant, used to test the properties: every candidate counts as tied
TiedCandidatesAll(candidates) == StableSortDesc(candidates, 1)

\* candidates.sort(reverse=True, key=score); those within 1e-9 of the maximum
TiedCandidates(candidates) ==
    LET sorted == StableSortDesc(candidates, 1)
        max_score == sorted[1][1]
    IN SelectSeq(sorted, LAMBDA c : c[1] = max_score)

\* faulty variant, used to test the properties: a dead end is never repaired
CanBacktrackNever(b) == FALSE

\* improved builder, line 177: the condition of the backtrack branch
CanBacktrack(b) ==
    /\ b.fn = "improved"
    /\ Len(b.path) > 1
    /\ Cardinality(b.visited) < Cardinality(vertices)

BldIdle ==
    [pc |-> "idle", fn |-> "base", strategy |-> "greedy", start |-> 0, seed |-> None,
     visited |-> {}, path |-> <<>>, current |-> 0, path_length |-> 0, backtracked |-> 0]

BldCalled(fn, strategy, start, seed) ==
    [BldIdle EXCEPT !.pc = "called", !.fn = fn, !.strategy = strategy,
                    !.start = start, !.seed = seed]

\* entry of a builder: random.seed(random_seed) when a seed is given, then
\* visited = {start}, path = [start], current = start, path_length = 0
BuilderEnter(b) ==
    [b EXCEPT !.pc = "loop", !.visited = {b.start}, !.path = <<b.start>>,
              !.current = b.start, !.path_length = 0]

\* faulty variant, used to test the properties: `current = chosen_neighbor` is forgotten
BuilderAppendKeepCurrent(b, chosen) ==
    [b EXCEPT !.visited = @ \cup {chosen[3]},
              !.path = Append(@, chosen[3]),
              !.path_length = @ + chosen[2]]

\* faulty variant, used to test the properties: the score, not the direct edge weight, is added to the length
BuilderAppendScore(b, chosen) ==
    [b EXCEPT !.visited = @ \cup {chosen[3]},
              !.path = Append(@, chosen[3]),
              !.path_length = @ + chosen[1],
              !.current = chosen[3]]

\* the chosen candidate is appended: its direct edge weight is added
BuilderAppend(b, chosen) ==
    [b EXCEPT !.visited = @ \cup {chosen[3]},
              !.path = Append(@, chosen[3]),
              !.path_length = @ + chosen[2],
              !.current = chosen[3]]

\* faulty variant, used to test the properties: the popped vertex stays in visited
BuilderPopKeepVisited(b) ==
    LET backtracked == Last(b.path)
        rest == Front(b.path)
        tail == Last(rest)
    IN [b EXCEPT !.path = rest,
                 !.path_length = @ - (IF tail \in DOMAIN graph /\ Adjacent(tail, backtracked)
                                      THEN EdgeWeight(tail, backtracked) ELSE 0),
                 !.current = tail,
                 !.backtracked = backtracked]

\* faulty variant, used to test the properties: the weight of the removed edge is not subtracted
BuilderPopKeepLength(b) ==
    LET backtracked == Last(b.path)
        rest == Front(b.path)
    IN [b EXCEPT !.path = rest,
                 !.visited = @ \ {backtracked},
                 !.current = Last(rest),
                 !.backtracked = backtracked]

\* improved builder, lines 179-183
BuilderPop(b) ==
    LET backtracked == Last(b.path)
        rest == Front(b.path)
        tail == Last(rest)
    IN [b EXCEPT !.path = rest,
                 !.visited = @ \ {backtracked},
                 !.path_length = @ - (IF tail \in DOMAIN graph /\ Adjacent(tail, backtracked)
                                      THEN EdgeWeight(tail, backtracked) ELSE 0),
                 !.current = tail,
                 !.backtracked = backtracked]

Calls == {1, 2}

BuilderCall(c) ==
    /\ bld[c].pc = "called"
    /\ rng' = IF bld[c].seed # None THEN RandomSeed(bld[c].seed) ELSE rng
    /\ bld' = [bld EXCEPT ![c] = BuilderEnter(@)]
    /\ UNCHANGED <<vertices, vlist, graph, gkeys, ex, drv>>

\* one loop iteration that finds candidates: random.choice among the ties
BuilderExtend(c) ==
    /\ bld[c].pc = "loop"
    /\ Candidates(bld[c]) # <<>>
    /\ bld' = [bld EXCEPT ![c] =
                 BuilderAppend(@, RandomChoice(TiedCandidates(Candidates(bld[c])), rng))]
    /\ rng' = RandomNext(rng)
    /\ GraphRead(BuilderLookups(bld[c]))
    /\ UNCHANGED <<vertices, vlist, ex, drv>>

\* one loop iteration of the improved builder at a dead end: pop and retry
BuilderBacktrack(c) ==
    /\ bld[c].pc = "loop"
    /\ Candidates(bld[c]) = <<>>
    /\ CanBacktrack(bld[c])
    /\ bld' = [bld EXCEPT ![c] = BuilderPop(@)]
    /\ GraphRead({bld[c].current, Last(Front(bld[c].path))})
    /\ UNCHANGED <<vertices, vlist, ex, rng, drv>>

\* no candidates and no repair: break, return path_length, path
BuilderBreak(c) ==
    /\ bld[c].pc = "loop"
    /\ Candidates(bld[c]) = <<>>
    /\ ~CanBacktrack(bld[c])
    /\ bld' = [bld EXCEPT ![c].pc = "returned"]
    /\ GraphRead({bld[c].current})
    /\ UNCHANGED <<vertices, vlist, ex, rng, drv>>

BuilderSteps(c) ==
    BuilderCall(c) \/ BuilderExtend(c) \/ BuilderBacktrack(c) \/ BuilderBreak(c)

Strategies(fn) ==
    CASE fn = "base" -> {"greedy", "lookahead"}
      [] fn = "improved" -> {"greedy", "lookahead", "lookahead2"}
      [] OTHER -> {"greedy"}

BuilderFns == {"base", "improved", "highweight", "connect"}

\* seeds a caller may hand to a builder
SeedArgs == {None, 0, 42}

\* ---------------------------------------------------------------- drivers
Min2(a, b) == IF a <= b THEN a ELSE b

\* lines 169-176 (baseline) and 466-472 (improved): num_starts when omitted
DefaultNumStarts(n) ==
    IF n <= 100 THEN n
    ELSE IF n <= 200 THEN Min2(150, n) ELSE Min2(200, n)

\* faulty variant, used to test the properties: more seeds above 50 vertices than below
NumSeedsBaseGrowing(n) ==
    IF n <= 20 THEN 30
    ELSE IF n <= 50 THEN 20
    ELSE IF n <= 100 THEN 25 ELSE 10

\* baseline driver, lines 193-200
NumSeedsBase(n) ==
    IF n <= 20 THEN 30
    ELSE IF n <= 50 THEN 20
    ELSE IF n <= 100 THEN 15 ELSE 10

\* improved driver, lines 503-516
NumSeedsImproved(n, is_problematic_case) ==
    IF is_problematic_case THEN 30
    ELSE IF n <= 12 THEN 15
    ELSE IF n <= 20 THEN 12
    ELSE IF n <= 50 THEN 8
    ELSE IF n <= 100 THEN 5 ELSE 3

\* random.sample(list, k) in generator state r: k draws without replacement
RECURSIVE RandomSample(_, _, _)
RandomSample(list, k, r) ==
    IF k <= 0 \/ list = <<>> THEN [out |-> <<>>, rng |-> r]
    ELSE LET j == (r % Len(list)) + 1
             rest == RandomSample(SubSeq(list, 1, j - 1) \o SubSeq(list, j + 1, Len(list)),
                                  k - 1, RandomNext(r))
         IN [out |-> <<list[j]>> \o rest.out, rng |-> rest.rng]

\* faulty variant, used to test the properties: the sample of the starts is drawn without seeding first
StartsBaseUnseeded(num_starts, random_seed, n, r) ==
    IF num_starts >= n THEN [out |-> vlist, rng |-> r]
    ELSE RandomSample(vlist, num_starts, r)

\* baseline driver, lines 179-186
StartsBase(num_starts, random_seed, n, r) ==
    IF num_starts >= n THEN [out |-> vlist, rng |-> r]
    ELSE RandomSample(vlist, num_starts,
                      IF random_seed # None THEN RandomSeed(random_seed) ELSE r)

\* improved driver, lines 457-463: vertices sorted by degree, descending
VertexListImproved ==
    LET tagged == [k \in DOMAIN vlist |-> <<vlist[k], Len(Items(vlist[k]))>>]
        sorted == StableSortDesc(tagged, 2)
    IN [k \in DOMAIN sorted |-> sorted[k][1]]

\* improved driver, lines 476-477: medium graphs ignore the caller's count
MediumNumStarts(num_starts, n) ==
    IF 8 <= n /\ n <= 12 THEN Min2(n * 2, n) ELSE num_starts

\* faulty variant, used to test the properties: no random vertices are added to the top ones
StartsImprovedTopOnly(num_starts, random_seed, n, r) ==
    IF num_starts >= n THEN [out |-> VertexListImproved, rng |-> r]
    ELSE [out |-> SubSeq(VertexListImproved, 1, num_starts), rng |-> r]

\* improved driver, lines 480-491
StartsImproved(num_starts, random_seed, n, r) ==
    LET vertex_list == VertexListImproved
    IN IF num_starts >= n THEN [out |-> vertex_list, rng |-> r]
       ELSE LET top == SubSeq(vertex_list, 1, num_starts)
                r1 == IF random_seed # None THEN RandomSeed(random_seed) ELSE r
                remaining == SelectSeq(vertex_list, LAMBDA v : v \notin Range(top))
                additional == Min2(Min2(5, Len(remaining)), n - num_starts)
            IN IF remaining # <<>> /\ num_starts < n
               THEN LET smp == RandomSample(remaining, additional, r1)
                    IN [out |-> top \o smp.out, rng |-> smp.rng]
               ELSE [out |-> top, rng |-> r1]

\* improved driver, line 500
EdgeCount ==
    SumSeq([k \in DOMAIN gkeys |-> Len(graph[gkeys[k]])]) \div 2

\* faulty variant, used to test the properties: the size class ignores the edge count
IsProblematicSizeOnly(n, edge_count) == 9 <= n /\ n <= 12

\* improved driver, line 501
IsProblematicCase(n, edge_count) == 9 <= n /\ n <= 12 /\ edge_count <= 20

\* the builders run for one (start, seed), in call order
ScorerSet(mode, is_problematic_case) ==
    IF mode = "base"
    THEN << <<"base", "greedy">>, <<"base", "lookahead">> >>
    ELSE IF is_problematic_case
    THEN << <<"highweight", "greedy">>, <<"connect", "greedy">> >>
    ELSE << <<"improved", "greedy">>, <<"improved", "lookahead">>,
            <<"improved", "lookahead2">>, <<"highweight", "greedy">> >>

\* faulty variant, used to test the properties: without a caller's seed the builders get none
BuilderSeedUnset(random_seed, i, seed_offset) ==
    IF random_seed # None THEN random_seed + i * 1000 + seed_offset
    ELSE None

\* lines 207-210 (baseline) and 521-524 (improved)
BuilderSeed(random_seed, i, seed_offset) ==
    IF random_seed # None THEN random_seed + i * 1000 + seed_offset
    ELSE i * 1000 + seed_offset

\* faulty variant, used to test the properties: a path of equal length replaces the best one
DriverImprovesOrEqual(path_length, max_length) == path_length >= max_length

\* lines 214, 220 (baseline) and 536-567 (improved)
DriverImproves(path_length, max_length) == path_length > max_length

DrvIdle ==
    [pc |-> "idle", run |-> 1, first |-> <<0, <<>> >>,
     mode |-> "base", num_starts |-> None, random_seed |-> None,
     n |-> 0, starts |-> <<>>, num_seeds_per_start |-> 0, is_problematic_case |-> FALSE,
     i |-> 0, seed_offset |-> 0, k |-> 1,
     max_length |-> 0, best_path |-> <<>>, calls |-> 0, results |-> <<>>]

\* values a caller passes as num_starts and random_seed
NumStartsArgs == {None, 1}
DriverSeedArgs == {None, 42}
Modes == {"base", "improved"}

\* find_longest_path_approx lines 163-200, find_longest_path_approx_improved
\* lines 450-516: everything before the loop over the starts
DriverCall ==
    /\ ex.pc \in {"done", "off"}
    /\ drv.pc = "idle"
    /\ bld[1].pc = "idle"
    /\ \E mode \in Modes : \E num_starts_arg \in NumStartsArgs :
       \E random_seed \in DriverSeedArgs :
         /\ drv.run = 2 =>
               /\ mode = drv.mode
               /\ num_starts_arg = drv.num_starts
               /\ random_seed = drv.random_seed
         /\ IF NoVertices(vertices)
            THEN /\ drv' = [drv EXCEPT !.pc = "done", !.mode = mode,
                                       !.num_starts = num_starts_arg,
                                       !.random_seed = random_seed,
                                       !.max_length = 0, !.best_path = <<>>,
                                       !.results = <<>>]
                 /\ rng' = rng
            ELSE LET n == Cardinality(vertices)
                     dflt == IF num_starts_arg = None THEN DefaultNumStarts(n)
                             ELSE num_starts_arg
                     num_starts == IF mode = "improved" THEN MediumNumStarts(dflt, n)
                                   ELSE dflt
                     sel == IF mode = "improved"
                            THEN StartsImproved(num_starts, random_seed, n, rng)
                            ELSE StartsBase(num_starts, random_seed, n, rng)
                     problematic == mode = "improved" /\ IsProblematicCase(n, EdgeCount)
                 IN /\ drv' = [drv EXCEPT
                                 !.pc = "loop", !.mode = mode,
                                 !.num_starts = num_starts_arg,
                                 !.random_seed = random_seed,
                                 !.n = n,
                                 !.starts = IF problematic THEN VertexListImproved
                                            ELSE sel.out,
                                 !.num_seeds_per_start =
                                     IF mode = "improved"
                                     THEN NumSeedsImproved(n, problematic)
                                     ELSE NumSeedsBase(n),
                                 !.is_problematic_case = problematic,
                                 !.i = 0, !.seed_offset = 0, !.k = 1,
                                 !.max_length = 0, !.best_path = <<>>, !.calls = 0,
                                 !.results = <<>>]
                    /\ rng' = sel.rng
    /\ UNCHANGED <<vertices, vlist, graph, gkeys, ex, bld>>

\* the next builder call of the loops over starts, seed offsets and scorers
DriverInvoke ==
    /\ drv.pc = "loop"
    /\ bld[1].pc = "idle"
    /\ drv.i < Len(drv.starts)
    /\ LET scorer == ScorerSet(drv.mode, drv.is_problematic_case)[drv.k]
           seed == BuilderSeed(drv.random_seed, drv.i, drv.seed_offset)
       IN bld' = [bld EXCEPT ![1] =
                     BldCalled(scorer[1], scorer[2], drv.starts[drv.i + 1], seed)]
    /\ drv' = [drv EXCEPT !.calls = @ + 1]
    /\ UNCHANGED <<vertices, vlist, graph, gkeys, ex, rng>>

\* the builder has returned: keep its path when strictly longer, then
\* advance to the next scorer, seed offset or start; results lists what
\* the builder calls of this driver call have returned, in call order
DriverCollect ==
    /\ drv.pc = "loop"
    /\ bld[1].pc = "returned"
    /\ LET better == DriverImproves(bld[1].path_length, drv.max_length)
           last_k == drv.k = Len(ScorerSet(drv.mode, drv.is_problematic_case))
           last_off == drv.seed_offset = drv.num_seeds_per_start - 1
       IN drv' = [drv EXCEPT
                    !.max_length = IF better THEN bld[1].path_length ELSE @,
                    !.best_path = IF better THEN bld[1].path ELSE @,
                    !.k = IF last_k THEN 1 ELSE @ + 1,
                    !.seed_offset = IF ~last_k THEN @ ELSE IF last_off THEN 0 ELSE @ + 1,
                    !.i = IF last_k /\ last_off THEN @ + 1 ELSE @,
                    !.results = Append(@, <<bld[1].path_length, bld[1].path>>)]
    /\ bld' = [bld EXCEPT ![1] = BldIdle]
    /\ UNCHANGED <<vertices, vlist, graph, gkeys, ex, rng>>

\* return max_length, best_path
DriverReturn ==
    /\ drv.pc = "loop"
    /\ bld[1].pc = "idle"
    /\ drv.i >= Len(drv.starts)
    /\ drv' = [drv EXCEPT !.pc = "done"]
    /\ UNCHANGED <<vertices, vlist, graph, gkeys, ex, rng, bld>>

\* the caller repeats the call with the same arguments
DriverAgain ==
    /\ drv.pc = "done"
    /\ drv.run = 1
    /\ drv' = [drv EXCEPT !.pc = "idle", !.run = 2,
                          !.first = <<drv.max_length, drv.best_path>>]
    /\ UNCHANGED <<vertices, vlist, graph, gkeys, ex, rng, bld>>

\* other code of the process draws from the shared generator between calls
OtherDraws ==
    /\ ex.pc = "done"
    /\ drv.pc = "idle"
    /\ rng' \in (0..(RngMod - 1)) \ {rng}
    /\ UNCHANGED <<vertices, vlist, graph, gkeys, ex, bld, drv>>

DriverNext ==
    \/ DriverCall \/ DriverInvoke \/ DriverCollect \/ DriverReturn
    \/ BuilderCall(1) \/ BuilderExtend(1) \/ BuilderBacktrack(1) \/ BuilderBreak(1)

\* ---------------------------------------------------------------- exact solver
\* faulty variant, used to test the properties: only the first improvement over the initial 0 is recorded
ExactImprovesFirstOnly(path_length, max_length) ==
    path_length > max_length /\ max_length = 0

\* faulty variant, used to test the properties: the vertex stays marked after the return
UnmarkNothing(visited, v) == visited

\* lines 131 and 136: visited.remove(v)
Unmark(visited, v) == visited \ {v}

\* line 117: the best path is replaced only by a strictly longer one
ExactImproves(path_length, max_length) == path_length > max_length

ExIdle ==
    [pc |-> "idle", si |-> 0, stack |-> <<>>, path |-> <<>>, visited |-> {},
     max_length |-> 0, best_path |-> <<>>, entered |-> <<>>]

\* find_longest_path, lines 92-96: the empty vertex set returns (0, []) at once
ExactCall ==
    /\ ex.pc = "idle"
    /\ ex' = IF NoVertices(vertices)
             THEN [ex EXCEPT !.pc = "done"]
             ELSE [ex EXCEPT !.pc = "start", !.si = 1]
    /\ UNCHANGED <<vertices, vlist, graph, gkeys, rng, bld, drv>>

\* lines 99-102 and 134-135: the next start vertex, dfs(start, 0, [start])
ExactStart ==
    /\ ex.pc = "start"
    /\ ex.si <= Len(vlist)
    /\ LET start == vlist[ex.si]
       IN ex' = [ex EXCEPT !.pc = "dfs",
                           !.visited = {start},
                           !.path = <<start>>,
                           !.stack = << [v |-> start, len |-> 0, at |-> 0] >>]
    /\ UNCHANGED <<vertices, vlist, graph, gkeys, rng, bld, drv>>

\* lines 113-123: entry of dfs, the best-so-far check, then
\* graph[current_vertex].items() is evaluated under `if current_vertex in graph`;
\* entered lists the paths dfs has been entered with, in call order
DfsEnter ==
    /\ ex.pc = "dfs"
    /\ ex.stack # <<>>
    /\ Last(ex.stack).at = 0
    /\ LET f == Last(ex.stack)
           d == Len(ex.stack)
       IN ex' = [ex EXCEPT
                   !.max_length = IF ExactImproves(f.len, @) THEN f.len ELSE @,
                   !.best_path = IF ExactImproves(f.len, ex.max_length) THEN ex.path ELSE @,
                   !.stack[d].at = 1,
                   !.entered = Append(@, ex.path)]
    /\ GraphRead({Last(ex.stack).v})
    /\ UNCHANGED <<vertices, vlist, rng, bld, drv>>

\* lines 122-128: one iteration of the neighbour loop; an unvisited
\* neighbour is pushed and dfs recurses
DfsNeighbor ==
    /\ ex.pc = "dfs"
    /\ ex.stack # <<>>
    /\ LET f == Last(ex.stack)
           d == Len(ex.stack)
       IN /\ f.at >= 1
          /\ f.at <= Len(Items(f.v))
          /\ LET neighbor == Items(f.v)[f.at][1]
                 weight == Items(f.v)[f.at][2]
             IN ex' = IF neighbor \notin ex.visited
                      THEN [ex EXCEPT
                              !.visited = @ \cup {neighbor},
                              !.path = Append(@, neighbor),
                              !.stack = Append(@, [v |-> neighbor,
                                                   len |-> f.len + weight,
                                                   at |-> 0])]
                      ELSE [ex EXCEPT !.stack[d].at = @ + 1]
    /\ UNCHANGED <<vertices, vlist, graph, gkeys, rng, bld, drv>>

\* lines 129-131 and 136: dfs returns; the caller pops the vertex and
\* unmarks it, the outermost caller unmarks the start
DfsReturn ==
    /\ ex.pc = "dfs"
    /\ ex.stack # <<>>
    /\ LET f == Last(ex.stack)
           d == Len(ex.stack)
       IN /\ f.at > Len(Items(f.v))
          /\ ex' = IF d > 1
                   THEN [ex EXCEPT
                           !.stack = [k \in 1..(d - 1) |->
                                        IF k = d - 1
                                        THEN [ex.stack[k] EXCEPT !.at = @ + 1]
                                        ELSE ex.stack[k]],
                           !.path = Front(@),
                           !.visited = Unmark(@, f.v)]
                   ELSE [ex EXCEPT
                           !.stack = <<>>,
                           !.path = <<>>,
                           !.visited = Unmark(@, f.v),
                           !.si = @ + 1,
                           !.pc = "start"]
    /\ UNCHANGED <<vertices, vlist, graph, gkeys, rng, bld, drv>>

\* line 138: return max_length, best_path
ExactReturn ==
    /\ ex.pc = "start"
    /\ ex.si > Len(vlist)
    /\ ex' = [ex EXCEPT !.pc = "done"]
    /\ UNCHANGED <<vertices, vlist, graph, gkeys, rng, bld, drv>>

ExactNext == ExactCall \/ ExactStart \/ DfsEnter \/ DfsNeighbor \/ DfsReturn \/ ExactReturn

\* read_graph: the header's n is read and not used; the vertex set is the
\* set of the endpoints of the edge lines
InitGraph(inputs) ==
    \E inp \in inputs :
        /\ vertices = Range(read_graph(inp.edges, EmptyGraph).keys)
        /\ LET g == read_graph(inp.edges, EmptyGraph)
           IN graph = g.adj /\ gkeys = g.keys

InitExact ==
    /\ InitGraph(GenInputs \cup ScenarioInputs \cup LoopInputs)
    /\ vlist \in Orders(vertices)
    /\ ex = ExIdle
    /\ rng = 0
    /\ bld = [c \in Calls |-> BldIdle]
    /\ drv = DrvIdle

SpecExact == InitExact /\ [][ExactNext]_vars

\* the call runs to its end: a single thread that always takes its next step
FairSpecExact == InitExact /\ [][ExactNext]_vars /\ WF_vars(ExactNext)

\* one builder call, from any start, with any seed argument, in any
\* state of the generator
InitBuilder ==
    /\ InitGraph(GenInputs \cup ScenarioInputs \cup LoopInputs \cup MediumInputs)
    /\ vlist = Asc(vertices)
    /\ vertices # {}
    /\ ex = ExIdle
    /\ drv = DrvIdle
    /\ rng \in 0..(RngMod - 1)
    /\ \E fn \in BuilderFns : \E strategy \in Strategies(fn) :
         \E start \in vertices : \E seed \in SeedArgs :
            bld = [c \in Calls |->
                     IF c = 1 THEN BldCalled(fn, strategy, start, seed) ELSE BldIdle]

SpecBuilder == InitBuilder /\ [][BuilderSteps(1)]_vars

\* graphs handed to the comparison of the solvers: the scenarios and the
\* generated graphs with positive weights, edges in file order
CompareInputs ==
    ScenarioInputs \cup LoopInputs \cup
    {inp \in GenInputs :
        /\ \A k \in DOMAIN inp.edges : inp.edges[k][3] > 0
        /\ \A k \in 1..(Len(inp.edges) - 1) :
              \/ inp.edges[k][1] < inp.edges[k + 1][1]
              \/ /\ inp.edges[k][1] = inp.edges[k + 1][1]
                 /\ inp.edges[k][2] < inp.edges[k + 1][2]}

\* the exact solver and then an approximate driver on the same graph, as
\* part_E/test_comparison_sample.py runs them; the driver call is repeated
Init ==
    /\ InitGraph(CompareInputs)
    /\ vlist \in {Asc(vertices), Reverse(Asc(vertices))}
    /\ ex = ExIdle
    /\ rng = 0
    /\ bld = [c \in Calls |-> BldIdle]
    /\ drv = DrvIdle

Next == ExactNext \/ DriverNext \/ DriverAgain \/ OtherDraws

Spec == Init /\ [][Next]_vars

\* the comparison run on graphs with negative and zero weights
InitSigned ==
    /\ InitGraph(SignedInputs)
    /\ vlist \in {Asc(vertices), Reverse(Asc(vertices))}
    /\ ex = ExIdle
    /\ rng = 0
    /\ bld = [c \in Calls |-> BldIdle]
    /\ drv = DrvIdle

SpecSigned == InitSigned /\ [][Next]_vars

\* an approximate driver run by its own main, without the exact solver, on
\* the scenarios and on a sparse and a dense graph of 9 vertices
DriverInputs == ScenarioInputs \cup MediumInputs \cup DenseInputs

InitDriver ==
    /\ InitGraph(DriverInputs)
    /\ vlist = Asc(vertices)
    /\ ex = [ExIdle EXCEPT !.pc = "off"]
    /\ rng = 0
    /\ bld = [c \in Calls |-> BldIdle]
    /\ drv = DrvIdle

SpecDriver == InitDriver /\ [][DriverNext]_vars

\* the same run on the star, every enabled step of the driver and of its
\* builder call being taken eventually (one thread runs the loop)
InitDriverStar ==
    /\ InitGraph({[n |-> 4, edges |-> StarEdges]})
    /\ vlist = Asc(vertices)
    /\ ex = [ExIdle EXCEPT !.pc = "off"]
    /\ rng = 0
    /\ bld = [c \in Calls |-> BldIdle]
    /\ drv = DrvIdle

FairSpecDriver == InitDriverStar /\ [][DriverNext]_vars /\ WF_vars(DriverNext)

\* the seed budget of both drivers, computed for graphs of every size
InitSeeds ==
    /\ InitGraph(PathInputs \cup DenseInputs)
    /\ vlist = Asc(vertices)
    /\ ex = [ExIdle EXCEPT !.pc = "off"]
    /\ rng = 0
    /\ bld = [c \in Calls |-> BldIdle]
    /\ drv = DrvIdle

\* lines 163 and 193-200 (baseline), 453 and 500-516 (improved)
SeedBudget ==
    /\ drv.pc = "idle"
    /\ \E mode \in Modes :
         LET n == Cardinality(vertices)
             problematic == mode = "improved" /\ IsProblematicCase(n, EdgeCount)
         IN drv' = [drv EXCEPT
                      !.pc = "seeds", !.mode = mode, !.n = n,
                      !.is_problematic_case = problematic,
                      !.num_seeds_per_start =
                          IF mode = "improved" THEN NumSeedsImproved(n, problematic)
                          ELSE NumSeedsBase(n)]
    /\ UNCHANGED <<vertices, vlist, graph, gkeys, ex, rng, bld>>

SpecSeeds == InitSeeds /\ [][SeedBudget]_vars

\* one call of the repair-capable builder greedy_path_from_start_improved on
\* a scenario graph; the single-threaded loop always takes its next step
InitRepair ==
    /\ InitGraph(ScenarioInputs)
    /\ vlist = Asc(vertices)
    /\ ex = ExIdle
    /\ drv = DrvIdle
    /\ rng = 0
    /\ \E strategy \in Strategies("improved") : \E start \in vertices :
       \E seed \in SeedArgs \ {None} :
          bld = [c \in Calls |->
                   IF c = 1 THEN BldCalled("improved", strategy, start, seed) ELSE BldIdle]

FairSpecRepair ==
    InitRepair /\ [][BuilderSteps(1)]_vars /\ WF_vars(BuilderSteps(1))

\* seeds of the two concurrent calls
ConcSeeds == {0, 1}

\* two calls of the baseline builder whose loop iterations interleave
InitConc ==
    /\ InitGraph(CompareInputs)
    /\ vertices # {}
    /\ vlist = Asc(vertices)
    /\ ex = ExIdle
    /\ drv = DrvIdle
    /\ rng = 0
    /\ \E s1, s2 \in Strategies("base") : \E v1, v2 \in vertices :
       \E seed1, seed2 \in ConcSeeds :
          bld = [c \in Calls |->
                   IF c = 1 THEN BldCalled("base", s1, v1, seed1)
                   ELSE BldCalled("base", s2, v2, seed2)]

ConcNext ==
    \E c \in Calls : BuilderCall(c) \/ BuilderExtend(c) \/ BuilderBreak(c)

SpecConc == InitConc /\ [][ConcNext]_vars

\* ---------------------------------------------------------------- claims
TriangleGraph == read_graph(TriangleEdges, EmptyGraph).adj
StarGraph == read_graph(StarEdges, EmptyGraph).adj
ChainGraph == read_graph(ChainEdges, EmptyGraph).adj
TrapGraph == read_graph(TrapEdges, EmptyGraph).adj

\* a path of the data model: distinct vertices of the graph, consecutive
\* ones joined by an edge
IsSimplePath(p) ==
    /\ Range(p) \subseteq vertices
    /\ \A a, b \in DOMAIN p : p[a] = p[b] => a = b
    /\ \A k \in 1..(Len(p) - 1) : Adjacent(p[k], p[k + 1])

PathWeight(p) == SumSeq([k \in 1..(Len(p) - 1) |-> EdgeWeight(p[k], p[k + 1])])

\* all simple paths of the graph with at least one vertex
RECURSIVE GrowPaths(_, _)
GrowPaths(frontier, acc) ==
    IF frontier = {} THEN acc
    ELSE LET next == {Append(p, v) : <<p, v>> \in
                        {<<p, v>> \in frontier \X vertices :
                            v \notin Range(p) /\ Adjacent(Last(p), v)}}
         IN GrowPaths(next, acc \cup next)

SimplePaths == LET one == {<<v>> : v \in vertices} IN GrowPaths(one, one)

MaxSimplePathWeight ==
    IF vertices = {} THEN 0
    ELSE CHOOSE m \in {PathWeight(p) : p \in SimplePaths} :
            \A p \in SimplePaths : PathWeight(p) <= m

\* what a call of a builder without repair returns when no other call runs
RECURSIVE SoloRun(_, _)
SoloRun(b, r) ==
    IF b.pc = "called"
    THEN SoloRun(BuilderEnter(b), IF b.seed # None THEN RandomSeed(b.seed) ELSE r)
    ELSE IF Candidates(b) = <<>> THEN <<b.path_length, b.path>>
    ELSE SoloRun(BuilderAppend(b, RandomChoice(TiedCandidates(Candidates(b)), r)),
                 RandomNext(r))

\* C1: when find_longest_path returns, its length is the maximum total
\* weight over all simple paths of the graph: 30 on the triangle of
\* Scenario A, 2 on the unit-weight star.
C1_ExactReturnsMaximum ==
    ex.pc = "done" =>
        /\ ex.max_length = MaxSimplePathWeight
        /\ graph = TriangleGraph => ex.max_length = 30
        /\ graph = StarGraph => ex.max_length = 2

C1_Witness ==
    /\ ex.pc = "done"
    /\ graph = TriangleGraph
    /\ ex.max_length = 30
    /\ ex.best_path \in {<<1, 2, 3>>, <<3, 2, 1>>}

\* C2: every path a solver returns (exact, baseline driver, improved driver)
\* has only vertices of the graph, an edge between each consecutive pair,
\* and no vertex twice.
C2_ReturnedPathsValid ==
    /\ ex.pc = "done" => IsSimplePath(ex.best_path)
    /\ drv.pc = "done" => IsSimplePath(drv.best_path)

C2_Witness ==
    /\ drv.pc = "done"
    /\ drv.mode = "improved"
    /\ Len(drv.best_path) = 3
    /\ Len(ex.best_path) = 3

\* C3: the length a solver reports is the sum of the weights of the edges
\* between consecutive vertices of the path it returns.
C3_LengthIsPathWeight ==
    /\ ex.pc = "done" => ex.max_length = PathWeight(ex.best_path)
    /\ drv.pc = "done" => drv.max_length = PathWeight(drv.best_path)

C3_Witness ==
    /\ drv.pc = "done"
    /\ drv.mode = "base"
    /\ Len(drv.best_path) = 4
    /\ drv.max_length = 6
    /\ ex.max_length = 6

\* C4: on the same graph the exact length is at least the length either
\* approximate driver returns, whatever num_starts and random_seed are.
C4_ExactDominates ==
    drv.pc = "done" => ex.pc = "done" /\ ex.max_length >= drv.max_length

C4_Witness ==
    /\ drv.pc = "done"
    /\ drv.max_length > 0
    /\ drv.max_length < ex.max_length

\* C5: a second call of a driver with the same graph, num_starts and
\* (given) seed returns the same (length, path) as the first, whatever was
\* drawn from the generator before and between the calls.
C5_SameSeedSameResult ==
    (drv.pc = "done" /\ drv.run = 2 /\ drv.random_seed # None) =>
        <<drv.max_length, drv.best_path>> = drv.first

C5_Witness ==
    /\ drv.pc = "done"
    /\ drv.run = 2
    /\ drv.random_seed = 42
    /\ drv.num_starts = 1
    /\ rng # RandomNext(RandomSeed(42))
    /\ Len(drv.best_path) >= 2
    /\ <<drv.max_length, drv.best_path>> = drv.first

\* C6: with an empty vertex set every solver returns (0, []) and never
\* enters its search: no start is tried, no dfs frame is pushed, no builder
\* is called.
C6_EmptyGraphReturnsAtOnce ==
    vertices = {} =>
        /\ ex.pc \in {"idle", "done"}
        /\ ex.stack = <<>> /\ ex.visited = {}
        /\ ex.max_length = 0 /\ ex.best_path = <<>>
        /\ drv.pc \in {"idle", "done"}
        /\ drv.calls = 0
        /\ \A c \in Calls : bld[c].pc = "idle"
        /\ drv.pc = "done" => drv.max_length = 0 /\ drv.best_path = <<>>

C6_Witness ==
    /\ vertices = {}
    /\ ex.pc = "done"
    /\ drv.pc = "done"
    /\ drv.mode = "improved"
    /\ drv.run = 2

\* C7: every call of greedy_path_from_start_improved returns.
C7_ImprovedBuilderTerminates == <>(bld[1].pc = "returned")

\* C8: a builder call whose iterations interleave with another call's
\* returns what it returns when run alone.
C8_InterleavedCallsIndependent ==
    \A c \in Calls :
        bld[c].pc = "returned" =>
            <<bld[c].path_length, bld[c].path>>
                = SoloRun(BldCalled(bld[c].fn, bld[c].strategy, bld[c].start, bld[c].seed), 0)

\* C9 as stated: on the greedy-trap graph find_longest_path returns 90 by
\* the path A-D-E-F.
C9_TrapReturns90 ==
    (ex.pc = "done" /\ graph = TrapGraph) =>
        /\ ex.max_length = 90
        /\ ex.best_path \in {<<1, 4, 5, 6>>, <<6, 5, 4, 1>>}

\* C9 amended: on the greedy-trap graph find_longest_path returns 191 by
\* the simple path C-B-A-D-E-F or its reverse.
C9_TrapReturns191 ==
    (ex.pc = "done" /\ graph = TrapGraph) =>
        /\ ex.max_length = 191
        /\ ex.best_path \in {<<3, 2, 1, 4, 5, 6>>, <<6, 5, 4, 1, 2, 3>>}

C9_Witness ==
    /\ ex.pc = "done"
    /\ graph = TrapGraph
    /\ ex.best_path = <<3, 2, 1, 4, 5, 6>>

\* position of vertex v in the iteration order of the vertex set
Position(v) == CHOOSE k \in DOMAIN vlist : vlist[k] = v

\* C10 as stated: on the chain A-B-C-D the exact solver and the baseline
\* driver return 6 and the path [A,B,C,D].
C10_ChainForwardOnly ==
    graph = ChainGraph =>
        /\ ex.pc = "done" => ex.max_length = 6 /\ ex.best_path = <<1, 2, 3, 4>>
        /\ (drv.pc = "done" /\ drv.mode = "base") =>
               drv.max_length = 6 /\ drv.best_path = <<1, 2, 3, 4>>

\* C10 amended: the exact solver, and the baseline driver when every vertex
\* is a start, return 6 and the whole chain, listed from the end vertex
\* that comes first in the iteration order of the vertex set: [A,B,C,D] or
\* [D,C,B,A].
C10_ChainEitherDirection ==
    LET whole == IF Position(1) < Position(4) THEN <<1, 2, 3, 4>> ELSE <<4, 3, 2, 1>>
    IN graph = ChainGraph =>
        /\ ex.pc = "done" => ex.max_length = 6 /\ ex.best_path = whole
        /\ (drv.pc = "done" /\ drv.mode = "base" /\ drv.num_starts = None) =>
               drv.max_length = 6 /\ drv.best_path = whole

C10_Witness ==
    /\ graph = ChainGraph
    /\ drv.pc = "done"
    /\ drv.mode = "base"
    /\ drv.num_starts = None
    /\ drv.best_path = <<4, 3, 2, 1>>
    /\ ex.best_path = <<4, 3, 2, 1>>

\* C11: on a non-empty graph in which no simple path has positive weight,
\* find_longest_path returns length 0 together with a single-vertex path
C11_SingleVertexWhenNoPositivePath ==
    (ex.pc = "done" /\ vertices # {} /\ MaxSimplePathWeight = 0) =>
        /\ ex.max_length = 0
        /\ Len(ex.best_path) = 1
        /\ ex.best_path[1] \in vertices

C13_DriverReturnsFirstBest ==
    (drv.pc = "done" /\ ~NoVertices(vertices)) =>
        /\ drv.results # <<>>
        /\ LET m == SetMax({drv.results[j][1] : j \in DOMAIN drv.results})
               first == CHOOSE j \in DOMAIN drv.results :
                           /\ drv.results[j][1] = m
                           /\ \A h \in 1..(j - 1) : drv.results[h][1] < m
           IN /\ drv.max_length = m
              /\ drv.best_path = drv.results[first][2]

\* the start vertices of the builder calls a driver call has made
StartsRun == {drv.results[j][2][1] : j \in DOMAIN drv.results}

\* the list of starts holds no vertex twice
DistinctStarts == \A a, b \in DOMAIN drv.starts : drv.starts[a] = drv.starts[b] => a = b

C15_ExactTerminates ==
    /\ <>(ex.pc = "done")
    /\ [](Len(ex.stack) <= Cardinality(vertices))
    /\ [](ex.pc = "done" =>
            /\ Range(ex.entered) = SimplePaths
            /\ \A a, b \in DOMAIN ex.entered : ex.entered[a] = ex.entered[b] => a = b)

\* the search has returned on the triangle, a cycle, after 15 dfs entries
\* that reached depth 3
C15_Witness ==
    /\ ex.pc = "done"
    /\ graph = TriangleGraph
    /\ Len(ex.entered) = 15
    /\ \E j \in DOMAIN ex.entered : Len(ex.entered[j]) = 3

\* C16: in greedy_path_from_start_improved a step that shortens the path
\* removes one vertex only and leaves a state with candidates, so the next
\* iteration extends the path and never pops again
C16_OneUndoPerDeadEnd ==
    [][\A c \in Calls :
          (bld[c].pc = "loop" /\ bld'[c].pc = "loop"
             /\ Len(bld'[c].path) < Len(bld[c].path)) =>
                /\ Len(bld'[c].path) = Len(bld[c].path) - 1
                /\ Candidates(bld'[c]) # <<>>]_vars

\* the improved builder has popped a vertex and has appended it again
C16_Witness ==
    /\ bld[1].fn = "improved"
    /\ bld[1].pc = "loop"
    /\ bld[1].backtracked # 0
    /\ Last(bld[1].path) = bld[1].backtracked
    /\ Len(bld[1].path) >= 3

\* the loop invariant of a builder call b
BuilderLoopInvariant(b) ==
    /\ b.visited = Range(b.path)
    /\ IsSimplePath(b.path)
    /\ b.path # <<>>
    /\ b.current = Last(b.path)
    /\ b.path_length = PathWeight(b.path)

\* C17: at the top of every loop iteration of every builder, and at its
\* return, visited is the set of the vertices of path, path is a simple
\* path that ends in current, and path_length is the sum of the direct edge
\* weights along path; a backtrack step subtracts the weight of the edge it
\* removes
C17_BuilderLoopInvariant ==
    /\ [](\A c \in Calls : bld[c].pc \in {"loop", "returned"} => BuilderLoopInvariant(bld[c]))
    /\ [][\A c \in Calls :
             (bld[c].pc = "loop" /\ bld'[c].pc = "loop"
                /\ Len(bld'[c].path) < Len(bld[c].path)) =>
                   bld'[c].path_length =
                      bld[c].path_length
                        - EdgeWeight(Last(bld'[c].path), Last(bld[c].path))]_vars

\* the improved builder has just popped a vertex off a path that keeps a
\* positive length
C17_Witness ==
    /\ bld[1].fn = "improved"
    /\ bld[1].pc = "loop"
    /\ bld[1].backtracked # 0
    /\ bld[1].backtracked \notin bld[1].visited
    /\ Len(bld[1].path) >= 2
    /\ bld[1].path_length > 0
    /\ Adjacent(bld[1].current, bld[1].backtracked)
    /\ EdgeWeight(bld[1].current, bld[1].backtracked) > 0

\* C18: while dfs runs, visited is the set of the vertices of the current
\* path and the path_length of every active call is the weight of its
\* prefix of the path; between two start vertices visited is empty
C18_DfsStateIsPath ==
    /\ ex.pc = "dfs" =>
          /\ ex.visited = Range(ex.path)
          /\ Len(ex.stack) = Len(ex.path)
          /\ \A k \in DOMAIN ex.stack :
                /\ ex.stack[k].v = ex.path[k]
                /\ ex.stack[k].len = PathWeight(SubSeq(ex.path, 1, k))
    /\ ex.pc \in {"start", "done"} => ex.visited = {}

\* dfs is entered at depth 3 from the second start vertex of the triangle
C18_Witness ==
    /\ ex.pc = "dfs"
    /\ graph = TriangleGraph
    /\ ex.si = 2
    /\ Len(ex.path) = 3
    /\ Last(ex.stack).at = 0
    /\ Last(ex.stack).len > 0

\* the unvisited neighbours of current whose score is the maximum over all
\* unvisited neighbours of current
BestNeighbours(b) ==
    LET open == {it \in Range(Items(b.current)) : it[1] \notin b.visited}
        score(it) == Score(b.fn, b.strategy, b.current, it[1], it[2], b.visited)
    IN {it[1] : it \in {x \in open : \A y \in open : score(y) <= score(x)}}

\* the state of a builder without repair before its last append
BeforeAppend(b) ==
    [b EXCEPT !.path = Front(@), !.visited = @ \ {Last(b.path)},
              !.current = Last(Front(b.path)),
              !.path_length = @ - EdgeWeight(Last(Front(b.path)), Last(b.path))]

\* C19: the vertex a builder appends is an unvisited neighbour of current
\* of maximal score; each neighbour of maximal score is chosen in some state
\* of the generator; the choice is a function of the generator state, which
\* a given seed fixes at the entry, so a seeded call returns the same result
\* whatever the generator held before
C19_ChoiceAmongBest ==
    /\ [][\A c \in Calls :
             (bld[c].pc = "loop" /\ bld'[c].pc = "loop"
                /\ Len(bld'[c].path) > Len(bld[c].path)) =>
                   /\ bld'[c].path = Append(bld[c].path, Last(bld'[c].path))
                   /\ Last(bld'[c].path) \in BestNeighbours(bld[c])
                   /\ Last(bld'[c].path)
                         = RandomChoice(TiedCandidates(Candidates(bld[c])), rng)[3]
                   /\ rng' = RandomNext(rng)]_vars
    /\ [][\A c \in Calls :
             (bld[c].pc = "called" /\ bld'[c].pc = "loop" /\ bld[c].seed # None) =>
                   rng' = RandomSeed(bld[c].seed)]_vars
    /\ [](\A c \in Calls :
             (bld[c].pc = "loop" /\ Candidates(bld[c]) # <<>>) =>
                \A v \in BestNeighbours(bld[c]) :
                   \E r \in 0..(RngMod - 1) :
                      RandomChoice(TiedCandidates(Candidates(bld[c])), r)[3] = v)
    /\ [](\A c \in Calls :
             (bld[c].pc = "returned" /\ bld[c].seed # None /\ bld[c].fn # "improved") =>
                <<bld[c].path_length, bld[c].path>>
                   = SoloRun(BldCalled(bld[c].fn, bld[c].strategy, bld[c].start, bld[c].seed), 0))

\* a seeded baseline call has appended the second of several tied candidates
C19_Witness ==
    /\ bld[1].fn = "base"
    /\ bld[1].seed # None
    /\ bld[1].pc = "loop"
    /\ Len(bld[1].path) >= 2
    /\ Len(TiedCandidates(Candidates(BeforeAppend(bld[1])))) >= 2
    /\ Last(bld[1].path) = TiedCandidates(Candidates(BeforeAppend(bld[1])))[2][3]

\* the simple paths of maximal total weight
LongestPaths == {p \in SimplePaths : PathWeight(p) = MaxSimplePathWeight}

\* C20: when several simple paths have the maximal total weight,
\* find_longest_path returns the one of them its DFS entered first
C20_FirstLongestWins ==
    (ex.pc = "done" /\ Cardinality(LongestPaths) >= 2) =>
        \E j \in DOMAIN ex.entered :
            /\ ex.entered[j] \in LongestPaths
            /\ \A h \in 1..(j - 1) : ex.entered[h] \notin LongestPaths
            /\ ex.best_path = ex.entered[j]

\* the distinct edge weights of the graph
DistinctWeights == {w[1] : w \in Range(AllWeights)}

\* the k-th largest element of a finite set of numbers with at least k elements
RECURSIVE KthLargest(_, _)
KthLargest(S, k) == IF k = 1 THEN SetMax(S) ELSE KthLargest(S \ {SetMax(S)}, k - 1)

\* C21: in greedy_path_highweight_priority the threshold is the 3rd-largest
\* distinct edge weight of the graph, or the largest weight when there are
\* fewer than 3 distinct weights, and a candidate edge gets the +20% bonus
\* exactly when its weight is at least that value
C21_ThresholdThirdDistinct ==
    \A c \in Calls :
        (bld[c].fn = "highweight" /\ bld[c].pc = "loop") =>
            LET claimed == IF Cardinality(DistinctWeights) >= 3
                           THEN KthLargest(DistinctWeights, 3)
                           ELSE SetMax(DistinctWeights \cup {0})
            IN /\ HighWeightThreshold = claimed
               /\ \A it \in Range(Items(bld[c].current)) :
                     (it[2] >= HighWeightThreshold) <=> (it[2] >= claimed)

\* lines 270-275: the number of unvisited forward edges of a candidate whose
\* weight is at least the threshold
FutureHighCount(current, neighbor, visited) ==
    Len(SelectSeq(Forward(neighbor, current, visited),
                  LAMBDA it : it[2] >= HighWeightThreshold))

\* C22: in greedy_path_highweight_priority a candidate with k >= 1
\* accessible high-weight forward edges gets the bonus 20 * (k - 1)
C22_BonusBeyondFirst ==
    \A c \in Calls :
        (bld[c].fn = "highweight" /\ bld[c].pc = "loop") =>
            \A it \in Range(Items(bld[c].current)) :
                LET k == FutureHighCount(bld[c].current, it[1], bld[c].visited)
                IN (it[1] \notin bld[c].visited /\ k >= 1) =>
                      MultiEdgeBonus(k) = 20 * (k - 1) * Scale

\* C23: greedy_path_connect_highweight_edges takes as top edges the 5
\* heaviest edges of the graph, all of them when there are fewer than 5, so
\* that with more than 5 edges some edge is not a top edge
C23_TopFiveEdges ==
    \A c \in Calls :
        (bld[c].fn = "connect" /\ bld[c].pc = "loop") =>
            /\ Len(TopEdges) = Min2(5, Len(AllEdges))
            /\ Len(AllEdges) > 5 =>
                  \E e \in Range(AllEdges) : ~IsTopEdge(e[1], e[2])

\* the edges of the graph, as unordered pairs of adjacent vertices
EdgeSet == {e \in SUBSET vertices : \E u \in e : \E v \in e : e = {u, v} /\ Adjacent(u, v)}

\* the scorers the improved driver is said to run for one (start, seed)
SparseScorers == << <<"highweight", "greedy">>, <<"connect", "greedy">> >>
GeneralScorers ==
    << <<"improved", "greedy">>, <<"improved", "lookahead">>,
       <<"improved", "lookahead2">>, <<"highweight", "greedy">> >>

\* C24: in find_longest_path_approx_improved the builder calls follow the
\* scorer set {high-weight priority, edge-cluster} exactly when 9 <= n <= 12
\* and the graph has at most 20 edges, and then every vertex is a start with
\* 30 seeds; in every other case each (start, seed) runs simple greedy,
\* 1-step lookahead, 2-step lookahead and high-weight priority, in that order
C24_ScorersBySizeClass ==
    [][(drv.mode = "improved" /\ drv.pc = "loop" /\ drv'.calls = drv.calls + 1) =>
        LET n == Cardinality(vertices)
            sparse == 9 <= n /\ n <= 12 /\ Cardinality(EdgeSet) <= 20
            scorers == IF sparse THEN SparseScorers ELSE GeneralScorers
            c == drv.calls
            per_start == drv.num_seeds_per_start * Len(scorers)
        IN /\ <<bld'[1].fn, bld'[1].strategy>> = scorers[(c % Len(scorers)) + 1]
           /\ bld'[1].start = drv.starts[(c \div per_start) + 1]
           /\ sparse => /\ Range(drv.starts) = vertices
                        /\ Len(drv.starts) = n
                        /\ drv.num_seeds_per_start = 30]_vars

C24_Witness ==
    /\ drv.pc = "done" /\ drv.mode = "improved"
    /\ Cardinality(vertices) = 9 /\ Cardinality(EdgeSet) = 8
    /\ drv.calls = 9 * 30 * 2

\* the builder calls of the current driver call stay within starts x seeds
\* x scorers, reach that number at return, and starts are at most |V|
CallCountWithinProduct ==
    drv.pc \in {"loop", "done"} =>
        LET scorers == IF drv.mode = "base" THEN 2
                       ELSE IF 9 <= drv.n /\ drv.n <= 12 /\ Cardinality(EdgeSet) <= 20
                       THEN 2 ELSE 4
            total == Len(drv.starts) * drv.num_seeds_per_start * scorers
        IN /\ Len(drv.starts) <= Cardinality(vertices)
           /\ drv.calls <= total
           /\ drv.pc = "done" => drv.calls = total

DriverInLoop == drv.pc = "loop"
DriverDone == drv.pc = "done"

\* C25: a driver call makes exactly |starts| x seeds_per_start x |scorers|
\* builder calls and then returns: 2 scorers in the baseline driver, 4 (2 in
\* the class of 9..12 vertices and at most 20 edges) in the improved one, and
\* never more starts than vertices
C25_CallCountThenReturn ==
    []CallCountWithinProduct /\ (DriverInLoop ~> DriverDone)

\* the seeds per start the drivers use for a graph of n vertices: the
\* improved driver's value depends on the size class as well
SeedsOf(mode, n, in_class) ==
    IF mode = "improved" THEN NumSeedsImproved(n, in_class) ELSE NumSeedsBase(n)

\* the size classes a graph of n vertices can be in
ClassesOf(mode, n) ==
    IF mode = "improved" /\ 9 <= n /\ n <= 12 THEN {TRUE, FALSE} ELSE {FALSE}

\* C26 as stated: in both drivers the seeds per start never increase with
\* n, are at least 10 for n <= 20 and a single-digit number for n > 100.
C26_SeedsShrinkWithSize ==
    drv.pc = "seeds" =>
        /\ \A n2 \in (drv.n + 1)..(MaxN + 1) : \A cl \in ClassesOf(drv.mode, n2) :
              drv.num_seeds_per_start >= SeedsOf(drv.mode, n2, cl)
        /\ drv.n <= 20 => drv.num_seeds_per_start >= 10
        /\ drv.n > 100 => drv.num_seeds_per_start < 10

\* C26, amended: the baseline driver's seeds never increase with n and are
\* 30 up to 20 vertices and 10 above 100; the improved driver's seeds are 30
\* in the class of 9..12 vertices and at most 20 edges, and outside that
\* class never increase with n, are at least 12 up to 20 vertices and 3
\* above 100
C26_SeedsBySizeAndClass ==
    drv.pc = "seeds" =>
        /\ \A n2 \in (drv.n + 1)..(MaxN + 1) :
              drv.num_seeds_per_start >= SeedsOf(drv.mode, n2, FALSE)
        /\ drv.n <= 20 => drv.num_seeds_per_start >= 10
        /\ drv.mode = "base" =>
              /\ drv.n <= 20 => drv.num_seeds_per_start = 30
              /\ drv.n > 100 => drv.num_seeds_per_start = 10
        /\ drv.mode = "improved" =>
              /\ (9 <= drv.n /\ drv.n <= 12 /\ Cardinality(EdgeSet) <= 20)
                    <=> drv.num_seeds_per_start = 30
              /\ drv.n <= 20 => drv.num_seeds_per_start >= 12
              /\ drv.n > 100 => drv.num_seeds_per_start = 3

C26_Witness ==
    /\ drv.pc = "seeds" /\ drv.mode = "base"
    /\ drv.n > 100 /\ drv.num_seeds_per_start = 10

\* C27: whenever greedy_path_from_start_improved returns, the returned path
\* visits every vertex of the graph or is the single start vertex, which has
\* no neighbour; it is never a path of two or more vertices that leaves a
\* vertex unvisited
C27_ImprovedReturnsFullPath ==
    \A c \in Calls :
        (bld[c].fn = "improved" /\ bld[c].pc = "returned") =>
            \/ Range(bld[c].path) = vertices
            \/ /\ bld[c].path = <<bld[c].start>>
               /\ \A v \in vertices \ {bld[c].start} : ~Adjacent(bld[c].start, v)

C27_Witness ==
    /\ bld[1].fn = "improved" /\ bld[1].pc = "returned"
    /\ Len(bld[1].path) >= 3
    /\ Range(bld[1].path) = vertices
    /\ IsSimplePath(bld[1].path)

\* a solve function has returned a length below 0, or an empty path with a
\* length other than 0, or a path with the length 0
BadResult(max_length, best_path) ==
    max_length < 0 \/ ~((best_path = <<>>) <=> (max_length = 0))

\* C28: for all three solve functions and any edge weights, zero and
\* negative included, the returned length is never negative and the returned
\* path is empty exactly when the returned length is 0; the best result is
\* replaced only by a path of strictly greater length
C28_EmptyIffZero ==
    /\ [](/\ ex.pc = "done" => ~BadResult(ex.max_length, ex.best_path)
          /\ drv.pc = "done" => ~BadResult(drv.max_length, drv.best_path))
    /\ [][/\ (ex.pc \in {"start", "dfs"} /\ ex'.best_path # ex.best_path) =>
               ex'.max_length > ex.max_length
          /\ (drv.pc = "loop" /\ drv'.best_path # drv.best_path) =>
               drv'.max_length > drv.max_length]_vars

C28_Witness ==
    /\ ex.pc = "done" /\ ex.best_path = <<>> /\ ex.max_length = 0
    /\ drv.pc = "done" /\ drv.best_path = <<>> /\ drv.max_length = 0
    /\ \E k \in DOMAIN drv.results : drv.results[k][1] < 0

\* the builders that have no repair step
PlainBuilders == {"base", "highweight", "connect"}

\* C29: greedy_path_from_start, greedy_path_highweight_priority and
\* greedy_path_connect_highweight_edges append one new vertex per loop
\* iteration, so they make at most |V| - 1 extensions, and when they return
\* the last vertex of the path has no unvisited neighbour
C29_PlainBuilderBounded ==
    /\ [](\A c \in Calls :
            (bld[c].fn \in PlainBuilders /\ bld[c].pc \in {"loop", "returned"}) =>
                /\ Len(bld[c].path) - 1 <= Cardinality(vertices) - 1
                /\ bld[c].pc = "returned" =>
                      \A v \in vertices :
                          Adjacent(Last(bld[c].path), v) => v \in Range(bld[c].path))
    /\ [][\A c \in Calls :
            (bld[c].fn \in PlainBuilders /\ bld[c].pc = "loop" /\ bld'[c] # bld[c]) =>
                \/ /\ bld'[c].pc = "loop"
                   /\ Len(bld'[c].path) = Len(bld[c].path) + 1
                   /\ SubSeq(bld'[c].path, 1, Len(bld[c].path)) = bld[c].path
                   /\ Last(bld'[c].path) \in vertices \ Range(bld[c].path)
                \/ /\ bld'[c].pc = "returned"
                   /\ bld'[c].path = bld[c].path]_vars

C29_Witness ==
    /\ bld[1].fn = "highweight" /\ bld[1].pc = "returned"
    /\ 2 <= Len(bld[1].path)
    /\ Len(bld[1].path) < Cardinality(vertices)

\* the seed the claim gives to the builder calls of start index i and
\* seed offset seed_offset
ClaimedSeed(random_seed, i, seed_offset) ==
    (IF random_seed = None THEN 0 ELSE random_seed) + i * 1000 + seed_offset

\* every builder call of a driver gets the claimed seed, whatever the scorer
SeedOfEveryCall ==
    [][(drv.pc = "loop" /\ drv'.calls = drv.calls + 1) =>
          /\ bld'[1].seed # None
          /\ bld'[1].seed = ClaimedSeed(drv.random_seed, drv.i, drv.seed_offset)
          /\ bld'[1].start = drv.starts[drv.i + 1]]_vars

\* the second of two calls with the same arguments returns what the first
\* returned, the generator having been used in between
SameResultAgain ==
    <<drv.max_length, drv.best_path>> = drv.first

\* C30 as stated: every builder call gets the seed i*1000 + seed_offset, plus
\* random_seed when given, the same for all scorers of one (start, offset);
\* so when every vertex is a start the driver's result does not depend on
\* the state of the global generator at entry, even without a seed.
C30_ResultIndependentOfGenerator ==
    /\ SeedOfEveryCall
    /\ []((drv.pc = "done" /\ drv.run = 2 /\ Range(drv.starts) = vertices) =>
            SameResultAgain)

\* the starts of the current driver call were taken from the vertex list
\* without random.sample: num_starts, after the defaults, is at least n
StartsNotSampled ==
    LET given == IF drv.num_starts = None THEN DefaultNumStarts(drv.n)
                 ELSE drv.num_starts
        num_starts == IF drv.mode = "improved" THEN MediumNumStarts(given, drv.n)
                      ELSE given
    IN num_starts >= drv.n \/ drv.is_problematic_case

\* C30, amended: every builder call gets the seed i*1000 + seed_offset, plus
\* random_seed when given, the same for all scorers of one (start, offset);
\* when the starts are the whole vertex list, taken without sampling, the
\* driver's result does not depend on the state of the global generator at
\* entry, even without a seed
C30_ResultIndependentUnsampled ==
    /\ SeedOfEveryCall
    /\ []((drv.pc = "done" /\ drv.run = 2 /\ StartsNotSampled) => SameResultAgain)

C30_Witness ==
    /\ drv.pc = "done" /\ drv.run = 2
    /\ drv.random_seed = None /\ drv.num_starts = None
    /\ Range(drv.starts) = vertices
    /\ Len(drv.best_path) >= 2
    /\ SameResultAgain

====
